---- MODULE Spec2Model ----
(***************************************************************************)
(* A model of the stock query agent of src/stock_agent.py: the three-node *)
(* LangGraph workflow (analyze_query -> execute_tool -> generate_response) *)
(* and the interactive loop chat_with_agent that drives it.                *)
(*                                                                         *)
(* Texts.  A Python str is modelled as a sequence of one-character        *)
(* strings.  A non-ASCII character is written by its code point, "uXXXX"   *)
(* (for instance "u8305" is U+8305, the first character of the company     *)
(* name Maotai), because a TLA+ string literal holds ASCII only.  Fixed    *)
(* ASCII fragments that no operation looks into (dictionary keys, numeric  *)
(* literals, the indentation of json.dumps) are kept as one element.       *)
(***************************************************************************)
EXTENDS Integers, Sequences, FiniteSets, TLC

\* The number of vocabulary words an input line is made of, at most.
MaxWords == 2
\* How often each node method is called on one dictionary when called directly.
MaxDirectCalls == 1
\* The number of turns of one run of an interactive loop, at most.
MaxTurns == 2

VARIABLES
    pc,         \* position of chat_with_agent: "prompt", "workflow", "except", "exited"
    node,       \* the workflow node to run next: "idle" outside a turn, else a node or "END"
    state,      \* the AgentState dictionary of the turn in flight (a function key -> value)
    visits,     \* how many times each node has run in the turn in flight
    effects,    \* what the node that ran last did beyond its return value
    user_input, \* the stripped line the loop holds; empty while it waits for input
    session,    \* the turns started in this run and the history records they appended
    messages,   \* main: the message history sent to the model
    api_key     \* main: os.getenv('ZHIPU_API_KEY')

vars == <<pc, node, state, visits, effects, user_input, session, messages, api_key>>

\* The variables of the workflow, and those of main.
workflowVars == <<node, state, visits, effects>>
mainVars == <<messages, api_key>>

----------------------------------------------------------------------------
(* Texts *)

\* Python's `keyword in question` on str: keyword occurs as a contiguous run.
Contains(text, keyword) ==
    \E i \in 1..(Len(text) - Len(keyword) + 1) :
        SubSeq(text, i, i + Len(keyword) - 1) = keyword

\* Python's any(keyword in question for keyword in [...]).
AnyKeywordIn(text, keywords) == \E keyword \in keywords : Contains(text, keyword)

\* str.endswith
EndsWith(text, suffix) ==
    /\ Len(text) >= Len(suffix)
    /\ SubSeq(text, Len(text) - Len(suffix) + 1, Len(text)) = suffix

----------------------------------------------------------------------------
(* Python values held in the AgentState dictionary *)

None == [kind |-> "None"]
Str(text) == [kind |-> "str", text |-> text]
\* A number, by its literal as Python prints it.
Num(literal) == [kind |-> "num", literal |-> literal]
\* A dict with string keys, as its items in insertion order: <<key, value>>.
Dict(items) == [kind |-> "dict", items |-> items]

\* The outcome of a call: a returned value, or a raised exception with its str(e).
Return(value) == [raised |-> FALSE, value |-> value]
Raise(message) == [raised |-> TRUE, message |-> message]

----------------------------------------------------------------------------
(* parse_tool_call: keyword groups and stock codes *)

Code600519SH == <<"6", "0", "0", "5", "1", "9", ".", "S", "H">>
Code000001SZ == <<"0", "0", "0", "0", "0", "1", ".", "S", "Z">>
Code600036SH == <<"6", "0", "0", "0", "3", "6", ".", "S", "H">>
Code000002SZ == <<"0", "0", "0", "0", "0", "2", ".", "S", "Z">>

\* ["Maotai", "600519"]
MaotaiKeywords == {<<"u8305", "u53F0">>, <<"6", "0", "0", "5", "1", "9">>}
\* ["Ping'an", "000001"]
PinganKeywords == {<<"u5E73", "u5B89">>, <<"0", "0", "0", "0", "0", "1">>}
\* ["Zhaoshang", "600036"]
ZhaoshangKeywords == {<<"u62DB", "u5546">>, <<"6", "0", "0", "0", "3", "6">>}
\* ["Wanke", "000002"]
WankeKeywords == {<<"u4E07", "u79D1">>, <<"0", "0", "0", "0", "0", "2">>}

\* ["shishi" realtime, "dangqian" current, "xianzai" now, "zuixin" latest]
RealtimeKeywords ==
    {<<"u5B9E", "u65F6">>, <<"u5F53", "u524D">>, <<"u73B0", "u5728">>, <<"u6700", "u65B0">>}
\* ["jiage" price, "gujia" share price, "zoushi" trend, "k-xian" k-line, "hangqing" quotes]
PriceKeywords ==
    {<<"u4EF7", "u683C">>, <<"u80A1", "u4EF7">>, <<"u8D70", "u52BF">>, <<"k", "u7EBF">>,
     <<"u884C", "u60C5">>}
\* ["caiwu" financial, "zhibiao" indicator, "yeji" results, "yingli" profit, "shouyi" earnings]
FinancialKeywords ==
    {<<"u8D22", "u52A1">>, <<"u6307", "u6807">>, <<"u4E1A", "u7EE9">>, <<"u76C8", "u5229">>,
     <<"u6536", "u76CA">>}
\* ["xinxi" information, "jiben" basic, "gaikuang" overview, "jieshao" introduction, "gongsi" company]
BasicKeywords ==
    {<<"u4FE1", "u606F">>, <<"u57FA", "u672C">>, <<"u6982", "u51B5">>, <<"u4ECB", "u7ECD">>,
     <<"u516C", "u53F8">>}

\* The stock-code half of parse_tool_call, mutated: the Ping'an group is tested first.
parse_stock_code_pingan_first(question) ==
    IF AnyKeywordIn(question, PinganKeywords) THEN Code000001SZ
    ELSE IF AnyKeywordIn(question, MaotaiKeywords) THEN Code600519SH
    ELSE IF AnyKeywordIn(question, ZhaoshangKeywords) THEN Code600036SH
    ELSE IF AnyKeywordIn(question, WankeKeywords) THEN Code000002SZ
    ELSE Code000001SZ

\* The stock-code half of parse_tool_call, mutated: the default is the Maotai code.
parse_stock_code_default_maotai(question) ==
    IF AnyKeywordIn(question, MaotaiKeywords) THEN Code600519SH
    ELSE IF AnyKeywordIn(question, PinganKeywords) THEN Code000001SZ
    ELSE IF AnyKeywordIn(question, ZhaoshangKeywords) THEN Code600036SH
    ELSE IF AnyKeywordIn(question, WankeKeywords) THEN Code000002SZ
    ELSE Code600519SH

\* The stock-code half of parse_tool_call (the if/elif chain over the four groups).
parse_stock_code(question) ==
    IF AnyKeywordIn(question, MaotaiKeywords) THEN Code600519SH
    ELSE IF AnyKeywordIn(question, PinganKeywords) THEN Code000001SZ
    ELSE IF AnyKeywordIn(question, ZhaoshangKeywords) THEN Code600036SH
    ELSE IF AnyKeywordIn(question, WankeKeywords) THEN Code000002SZ
    ELSE Code000001SZ

\* The tool half of parse_tool_call, mutated: the price group is tested before the
\* realtime group.
parse_tool_name_price_first(question) ==
    IF AnyKeywordIn(question, PriceKeywords) THEN "get_stock_price"
    ELSE IF AnyKeywordIn(question, RealtimeKeywords) THEN "get_realtime_price"
    ELSE IF AnyKeywordIn(question, FinancialKeywords) THEN "get_financial_indicator"
    ELSE IF AnyKeywordIn(question, BasicKeywords) THEN "get_stock_basic"
    ELSE "get_stock_basic"

\* The tool half of parse_tool_call (the if/elif chain over the four groups).
parse_tool_name(question) ==
    IF AnyKeywordIn(question, RealtimeKeywords) THEN "get_realtime_price"
    ELSE IF AnyKeywordIn(question, PriceKeywords) THEN "get_stock_price"
    ELSE IF AnyKeywordIn(question, FinancialKeywords) THEN "get_financial_indicator"
    ELSE IF AnyKeywordIn(question, BasicKeywords) THEN "get_stock_basic"
    ELSE "get_stock_basic"

\* parse_tool_call, mutated: the argument is keyed by the name the data provider uses
\* (ts_code) instead of the tool's parameter name.
parse_tool_call_ts_code(question) ==
    [tool_name |-> parse_tool_name(question),
     tool_args |-> [ts_code |-> Str(parse_stock_code(question))]]

\* parse_tool_call: the tool call as a dictionary.
parse_tool_call(question) ==
    [tool_name |-> parse_tool_name(question),
     tool_args |-> [stock_code |-> Str(parse_stock_code(question))]]

----------------------------------------------------------------------------
(* Python exceptions and serialisations *)

\* str(KeyError(key)): the key in single quotes.
KeyErrorText(key) == <<"'", key, "'">>
\* str(AttributeError) of None.endswith
NoEndswithText == <<"'NoneType' object has no attribute 'endswith'">>

\* repr() of a scalar: a str in single quotes.
ReprScalar(v) ==
    CASE v.kind = "None" -> <<"N", "o", "n", "e">>
      [] v.kind = "str" -> <<"'">> \o v.text \o <<"'">>
      [] v.kind = "num" -> <<v.literal>>

RECURSIVE ReprItems(_)
\* The items of repr(dict): 'key': value, joined by ", ".
ReprItems(items) ==
    IF items = <<>> THEN <<>>
    ELSE <<"'", items[1][1], "'", ":", " ">> \o ReprScalar(items[1][2])
         \o (IF Len(items) = 1 THEN <<>> ELSE <<",", " ">>)
         \o ReprItems(Tail(items))

\* format(value, "") as an f-string does it: a str as it is, a dict by its repr.
Format(v) ==
    CASE v.kind = "None" -> <<"N", "o", "n", "e">>
      [] v.kind = "str" -> v.text
      [] v.kind = "num" -> <<v.literal>>
      [] v.kind = "dict" -> <<"{">> \o ReprItems(v.items) \o <<"}">>

\* json.dumps of a scalar with ensure_ascii=False: a str in double quotes.
JsonScalar(v) ==
    CASE v.kind = "None" -> <<"n", "u", "l", "l">>
      [] v.kind = "str" -> <<"\"">> \o v.text \o <<"\"">>
      [] v.kind = "num" -> <<v.literal>>

RECURSIVE JsonItems(_)
\* The items of json.dumps(dict, indent=2): each "key": value on a line of its own,
\* indented by two spaces, joined by ",\n".
JsonItems(items) ==
    IF items = <<>> THEN <<>>
    ELSE <<"  ", "\"", items[1][1], "\"", ":", " ">> \o JsonScalar(items[1][2])
         \o (IF Len(items) = 1 THEN <<>> ELSE <<",", "\n">>)
         \o JsonItems(Tail(items))

\* json.dumps(value, ensure_ascii=False, indent=2).
json_dumps(v) ==
    IF v.kind = "dict"
    THEN IF v.items = <<>> THEN <<"{", "}">>
         ELSE <<"{", "\n">> \o JsonItems(v.items) \o <<"\n", "}">>
    ELSE JsonScalar(v)

----------------------------------------------------------------------------
(* The tools of the MCP server: the parameters each one declares *)

\* The parameters without a default and those with one (period = '20231231').
ToolSchema ==
    [get_stock_basic |-> [required |-> {"stock_code"}, defaulted |-> {}],
     get_stock_price |-> [required |-> {"stock_code"}, defaulted |-> {}],
     get_realtime_price |-> [required |-> {"stock_code"}, defaulted |-> {}],
     get_financial_indicator |-> [required |-> {"stock_code"}, defaulted |-> {"period"}]]

----------------------------------------------------------------------------
(* get_mock_stock_data *)

ToolNames == {"get_stock_basic", "get_stock_price", "get_realtime_price",
              "get_financial_indicator"}

GuizhouMaotai == <<"u8D35", "u5DDE", "u8305", "u53F0">>
PinganBank == <<"u5E73", "u5B89", "u94F6", "u884C">>
UnknownToolText == <<"u672A", "u77E5", "u5DE5", "u5177", "u7C7B", "u578B">>

\* "A" if stock_code == "600519.SH" else "B"
IfMaotai(stock_code, a, b) == IF stock_code = Str(Code600519SH) THEN Str(a) ELSE Str(b)

\* get_mock_stock_data: the fixed payload of each tool, or a raised exception.
get_mock_stock_data(tool_name, stock_code) ==
    IF tool_name = "get_stock_basic" THEN
        IF stock_code.kind # "str" THEN Raise(NoEndswithText)
        ELSE Return(Dict(<<
            <<"ts_code", stock_code>>,
            <<"name", IfMaotai(stock_code, GuizhouMaotai, PinganBank)>>,
            <<"area", IfMaotai(stock_code, <<"u8D35", "u5DDE">>, <<"u5E7F", "u4E1C">>)>>,
            <<"industry", Str(<<"u767D", "u9152">>)>>,
            <<"market", Str(<<"u4E3B", "u677F">>)>>,
            <<"exchange", IF EndsWith(stock_code.text, <<".", "S", "H">>)
                          THEN Str(<<"S", "S", "E">>) ELSE Str(<<"S", "Z", "S", "E">>)>>,
            <<"list_date", Str(<<"2001-08-27">>)>>,
            <<"fullname", IfMaotai(stock_code,
                GuizhouMaotai \o <<"u9152", "u80A1", "u4EFD", "u6709", "u9650", "u516C", "u53F8">>,
                PinganBank \o <<"u80A1", "u4EFD", "u6709", "u9650", "u516C", "u53F8">>)>> >>))
    ELSE IF tool_name = "get_stock_price" THEN
        Return(Dict(<<
            <<"ts_code", stock_code>>,
            <<"trade_date", Str(<<"2024-01-15">>)>>,
            <<"open", Num("1650.0")>>,
            <<"high", Num("1680.0")>>,
            <<"low", Num("1645.0")>>,
            <<"close", Num("1675.5")>>,
            <<"vol", Num("5000000")>>,
            <<"amount", Num("8375000000")>> >>))
    ELSE IF tool_name = "get_realtime_price" THEN
        Return(Dict(<<
            <<"ts_code", stock_code>>,
            <<"name", IfMaotai(stock_code, GuizhouMaotai, PinganBank)>>,
            <<"price", Num("1675.5")>>,
            <<"change", Num("25.5")>>,
            <<"change_percent", Num("1.55")>>,
            <<"volume", Num("50000")>>,
            <<"amount", Num("83750000")>>,
            <<"time", Str(<<"14:30:00">>)>> >>))
    ELSE IF tool_name = "get_financial_indicator" THEN
        Return(Dict(<<
            <<"ts_code", stock_code>>,
            <<"ann_date", Str(<<"2023-10-28">>)>>,
            <<"end_date", Str(<<"2023-09-30">>)>>,
            <<"eps", Num("15.88")>>,
            <<"bps", Num("125.36")>>,
            <<"roe", Num("12.67")>>,
            <<"profit_margin", Num("52.3")>> >>))
    ELSE Return(Dict(<< <<"error", Str(UnknownToolText)>> >>))

----------------------------------------------------------------------------
(* The AgentState dictionary and the three workflow nodes *)

\* dict.get(key, default)
Get(dict, key, default) == IF key \in DOMAIN dict THEN dict[key] ELSE default

\* LangGraph's state update: the keys a node returns overwrite the state's.
Merge(dict, update) ==
    [k \in DOMAIN dict \cup DOMAIN update |->
        IF k \in DOMAIN update THEN update[k] ELSE dict[k]]

HumanMessage(content) == [type |-> "human", content |-> content]

\* What a node did: whether an exception left it, the dictionary it returned, and how
\* often it called get_mock_stock_data and self.llm.invoke.
Returned(update, lookups, llm_calls) ==
    [raised |-> FALSE, update |-> update, lookups |-> lookups, llm_calls |-> llm_calls]
Raised(lookups, llm_calls) ==
    [raised |-> TRUE, update |-> <<>>, lookups |-> lookups, llm_calls |-> llm_calls]

\* analyze_user_query, mutated: the node also clears the answer field.
analyze_user_query_clears_answer(st) ==
    IF "question" \notin DOMAIN st THEN Raised(0, 0)
    ELSE LET tool_call == parse_tool_call(st.question) IN
         Returned([tool_name |-> tool_call.tool_name,
                   tool_args |-> tool_call.tool_args,
                   answer |-> <<"?">>,
                   conversation_history |->
                       Get(st, "conversation_history", <<>>)
                       \o <<HumanMessage(st.question)>>],
                  0, 0)

\* analyze_user_query
analyze_user_query(st) ==
    IF "question" \notin DOMAIN st THEN Raised(0, 0)
    ELSE LET tool_call == parse_tool_call(st.question) IN
         Returned([tool_name |-> tool_call.tool_name,
                   tool_args |-> tool_call.tool_args,
                   conversation_history |->
                       Get(st, "conversation_history", <<>>)
                       \o <<HumanMessage(st.question)>>],
                  0, 0)

\* "tool call failed: "
ToolFailedText == <<"u5DE5", "u5177", "u8C03", "u7528", "u5931", "u8D25", ":", " ">>

\* The except branch of execute_tool_call.
ToolFailure(message, lookups) ==
    Returned([tool_result |-> Str(ToolFailedText \o message), success |-> FALSE],
             lookups, 0)

\* execute_tool_call, mutated: the stock code is read with dict.get, so a missing one
\* is None and no KeyError is raised.
execute_tool_call_get(st) ==
    IF "tool_name" \notin DOMAIN st THEN ToolFailure(KeyErrorText("tool_name"), 0)
    ELSE IF "tool_args" \notin DOMAIN st THEN ToolFailure(KeyErrorText("tool_args"), 0)
    ELSE LET mock_data == get_mock_stock_data(st.tool_name,
                                              Get(st.tool_args, "stock_code", None)) IN
         IF mock_data.raised THEN ToolFailure(mock_data.message, 1)
         ELSE Returned([tool_result |-> mock_data.value, success |-> TRUE], 1, 0)

\* execute_tool_call
execute_tool_call(st) ==
    IF "tool_name" \notin DOMAIN st THEN ToolFailure(KeyErrorText("tool_name"), 0)
    ELSE IF "tool_args" \notin DOMAIN st THEN ToolFailure(KeyErrorText("tool_args"), 0)
    ELSE IF "stock_code" \notin DOMAIN st.tool_args
         THEN ToolFailure(KeyErrorText("stock_code"), 0)
    ELSE LET mock_data == get_mock_stock_data(st.tool_name, st.tool_args.stock_code) IN
         IF mock_data.raised THEN ToolFailure(mock_data.message, 1)
         ELSE Returned([tool_result |-> mock_data.value, success |-> TRUE], 1, 0)

\* "query failed:" and "query result:", each ending in a full-width colon
QueryFailedText == <<"u67E5", "u8BE2", "u5931", "u8D25", "uFF1A">>
QueryResultText == <<"u67E5", "u8BE2", "u7ED3", "u679C", "uFF1A">>

\* generate_final_response, mutated: no try/except around self.llm.invoke.
generate_final_response_unguarded(st, llm) ==
    IF ~Get(st, "success", FALSE) THEN
        IF "tool_result" \notin DOMAIN st THEN Raised(0, 0)
        ELSE Returned([answer |-> QueryFailedText \o Format(st.tool_result)], 0, 0)
    ELSE IF "tool_result" \notin DOMAIN st \/ "question" \notin DOMAIN st
         THEN Raised(0, 0)
    ELSE IF llm.raised THEN Raised(0, 1)
         ELSE Returned([answer |-> llm.value], 0, 1)

\* generate_final_response, mutated: the fallback formats the payload with an
\* f-string (its repr) instead of json.dumps.
generate_final_response_repr(st, llm) ==
    IF ~Get(st, "success", FALSE) THEN
        IF "tool_result" \notin DOMAIN st THEN Raised(0, 0)
        ELSE Returned([answer |-> QueryFailedText \o Format(st.tool_result)], 0, 0)
    ELSE IF "tool_result" \notin DOMAIN st \/ "question" \notin DOMAIN st
         THEN Raised(0, 0)
    ELSE IF llm.raised
         THEN Returned([answer |-> QueryResultText \o <<"\n">> \o Format(st.tool_result)],
                       0, 1)
         ELSE Returned([answer |-> llm.value], 0, 1)

\* generate_final_response, mutated: a missing success flag counts as a success
\* (state.get("success", True)).
generate_final_response_default_true(st, llm) ==
    IF ~Get(st, "success", TRUE) THEN
        IF "tool_result" \notin DOMAIN st THEN Raised(0, 0)
        ELSE Returned([answer |-> QueryFailedText \o Format(st.tool_result)], 0, 0)
    ELSE IF "tool_result" \notin DOMAIN st \/ "question" \notin DOMAIN st
         THEN Raised(0, 0)
    ELSE LET data_summary == json_dumps(st.tool_result) IN
         IF llm.raised
         THEN Returned([answer |-> QueryResultText \o <<"\n">> \o data_summary], 0, 1)
         ELSE Returned([answer |-> llm.value], 0, 1)

\* generate_final_response; llm is what self.llm.invoke does if it is called.
generate_final_response(st, llm) ==
    IF ~Get(st, "success", FALSE) THEN
        IF "tool_result" \notin DOMAIN st THEN Raised(0, 0)
        ELSE Returned([answer |-> QueryFailedText \o Format(st.tool_result)], 0, 0)
    ELSE IF "tool_result" \notin DOMAIN st \/ "question" \notin DOMAIN st
         THEN Raised(0, 0)
    ELSE LET data_summary == json_dumps(st.tool_result) IN
         IF llm.raised
         THEN Returned([answer |-> QueryResultText \o <<"\n">> \o data_summary], 0, 1)
         ELSE Returned([answer |-> llm.value], 0, 1)

----------------------------------------------------------------------------
(* create_workflow: the graph *)

Nodes == {"analyze_query", "execute_tool", "generate_response"}

\* create_workflow, mutated: generate_response leads back to analyze_query.
create_workflow_cycle ==
    [entry_point |-> "analyze_query",
     edges |-> [analyze_query |-> "execute_tool",
                execute_tool |-> "generate_response",
                generate_response |-> "analyze_query"]]

\* create_workflow: the entry point and the edge leaving each node.
create_workflow ==
    [entry_point |-> "analyze_query",
     edges |-> [analyze_query |-> "execute_tool",
                execute_tool |-> "generate_response",
                generate_response |-> "END"]]

----------------------------------------------------------------------------
(* The input lines and the environment *)

\* The whitespace of str.strip() that the input lines hold: blank and tab.
Whitespace == {" ", "\t"}

\* str.strip(): leading and trailing whitespace removed.
RECURSIVE LStrip(_)
LStrip(text) ==
    IF text # <<>> /\ Head(text) \in Whitespace THEN LStrip(Tail(text)) ELSE text

RECURSIVE RStrip(_)
RStrip(text) ==
    IF text # <<>> /\ text[Len(text)] \in Whitespace
    THEN RStrip(SubSeq(text, 1, Len(text) - 1)) ELSE text

Strip(text) == RStrip(LStrip(text))

UpperCase == <<"A", "B", "C", "D", "E", "F", "G", "H", "I", "J", "K", "L", "M",
               "N", "O", "P", "Q", "R", "S", "T", "U", "V", "W", "X", "Y", "Z">>
LowerCase == <<"a", "b", "c", "d", "e", "f", "g", "h", "i", "j", "k", "l", "m",
               "n", "o", "p", "q", "r", "s", "t", "u", "v", "w", "x", "y", "z">>

\* str.lower(): each upper-case letter by its lower-case one.
Lower(text) ==
    [i \in 1..Len(text) |->
        IF \E j \in 1..26 : UpperCase[j] = text[i]
        THEN LowerCase[CHOOSE j \in 1..26 : UpperCase[j] = text[i]]
        ELSE text[i]]

\* ['tuichu' (leave), 'quit', 'exit']
ExitTokens == {<<"u9000", "u51FA">>, <<"q", "u", "i", "t">>, <<"e", "x", "i", "t">>}

\* The words an input line is made of: every keyword of parse_tool_call, the exit
\* tokens in some spellings, a blank and the particle "de" (U+7684).
Vocabulary ==
    MaotaiKeywords \cup PinganKeywords \cup ZhaoshangKeywords \cup WankeKeywords
    \cup RealtimeKeywords \cup PriceKeywords \cup FinancialKeywords \cup BasicKeywords
    \cup ExitTokens
    \cup {<<"Q", "U", "I", "T">>, <<"E", "x", "i", "t">>, <<" ">>, <<"u7684">>}

\* A vocabulary with one keyword of each group of parse_tool_call's tool chain, a
\* company name, a numeric code, an exit token and a blank.
CoreVocabulary ==
    {<<"u8305", "u53F0">>, <<"0", "0", "0", "0", "0", "2">>,
     <<"u5B9E", "u65F6">>, <<"u80A1", "u4EF7">>, <<"u8D22", "u52A1">>, <<"u516C", "u53F8">>,
     <<"Q", "u", "i", "t">>, <<" ">>}

RECURSIVE LinesOf(_, _)
\* The lines of at most n words of a vocabulary.
LinesOf(words, n) ==
    IF n = 0 THEN {<<>>}
    ELSE LET shorter == LinesOf(words, n - 1) IN
         shorter \cup {line \o word : line \in shorter, word \in words}

\* The lines input() may return.
Lines == LinesOf(Vocabulary, MaxWords)
CoreLines == LinesOf(CoreVocabulary, MaxWords)

\* What self.llm.invoke may do: raise, or return a response with some content.
LLMOutcomes ==
    {Raise(<<"timeout">>), Return(<<>>), Return(<<"u8305", "u53F0", ":", "1675.5">>)}

----------------------------------------------------------------------------
(* chat_with_agent and the workflow it invokes *)

NoVisits == [n \in Nodes |-> 0]
NoEffects == [raised |-> FALSE, lookups |-> 0, llm_calls |-> 0, llm_raised |-> FALSE]

\* The dictionary chat_with_agent hands to workflow.ainvoke.
InitialState(question) ==
    [question |-> question,
     tool_name |-> "",
     tool_args |-> <<>>,
     tool_result |-> None,
     success |-> FALSE,
     answer |-> <<>>,
     conversation_history |-> <<>>]

NoSession == [turns |-> 0, appended |-> 0]

\* No workflow in flight.
WorkflowIdle ==
    /\ node = "idle"
    /\ state = <<>>
    /\ visits = NoVisits
    /\ effects = NoEffects

\* main is not the program that runs.
MainIdle ==
    /\ messages = <<>>
    /\ api_key = None

Init ==
    /\ pc = "prompt"
    /\ WorkflowIdle
    /\ user_input = <<>>
    /\ session = NoSession
    /\ MainIdle

\* Back at the top of the while loop, no turn in flight.
ToPrompt ==
    /\ pc' = "prompt"
    /\ node' = "idle"
    /\ state' = <<>>
    /\ visits' = NoVisits
    /\ effects' = NoEffects
    /\ user_input' = <<>>
    /\ UNCHANGED <<session, mainVars>>

\* input() returns an exit token: the loop ends.
ReadExitFrom(lines) ==
    /\ pc = "prompt"
    /\ \E line \in lines :
          /\ Lower(Strip(line)) \in ExitTokens
          /\ user_input' = Strip(line)
    /\ pc' = "exited"
    /\ UNCHANGED <<workflowVars, session, mainVars>>

\* input() returns a line of whitespace: the loop prompts again.
ReadEmptyFrom(lines) ==
    /\ pc = "prompt"
    /\ \E line \in lines :
          /\ Lower(Strip(line)) \notin ExitTokens
          /\ Strip(line) = <<>>
          /\ user_input' = Strip(line)
    /\ UNCHANGED <<pc, workflowVars, session, mainVars>>

\* input() returns a question: the workflow is invoked on a fresh state.
ReadQuestionFrom(lines) ==
    /\ pc = "prompt"
    /\ session.turns < MaxTurns
    /\ \E line \in lines :
          /\ Lower(Strip(line)) \notin ExitTokens
          /\ Strip(line) # <<>>
          /\ user_input' = Strip(line)
    /\ state' = InitialState(user_input')
    /\ pc' = "workflow"
    /\ node' = create_workflow.entry_point
    /\ visits' = NoVisits
    /\ effects' = NoEffects
    /\ session' = [session EXCEPT !.turns = @ + 1]
    /\ UNCHANGED mainVars

\* input() raises EOFError: the per-turn guard (except Exception) takes it.
ReadEOF ==
    /\ pc = "prompt"
    /\ pc' = "except"
    /\ UNCHANGED <<workflowVars, user_input, session, mainVars>>

\* input() raises KeyboardInterrupt: the loop ends.
ReadInterrupt ==
    /\ pc = "prompt"
    /\ pc' = "exited"
    /\ UNCHANGED <<workflowVars, user_input, session, mainVars>>

\* HandleException, mutated: the except branch ends the loop (break for continue).
HandleException_breaks ==
    /\ pc = "except"
    /\ pc' = "exited"
    /\ UNCHANGED <<workflowVars, user_input, session, mainVars>>

\* The except Exception branch: a message is printed and the loop continues.
HandleException ==
    /\ pc = "except"
    /\ ToPrompt

\* One node of the compiled graph runs: its update is merged into the state and the
\* edge leaving it is followed; an exception leaves ainvoke for the per-turn guard.
RunNode(n, result, llm_raised) ==
    /\ pc = "workflow"
    /\ node = n
    /\ visits' = [visits EXCEPT ![n] = @ + 1]
    /\ effects' = [raised |-> result.raised, lookups |-> result.lookups,
                   llm_calls |-> result.llm_calls,
                   llm_raised |-> llm_raised /\ result.llm_calls > 0]
    /\ IF result.raised
       THEN /\ pc' = "except"
            /\ UNCHANGED <<node, state, session>>
       ELSE /\ pc' = pc
            /\ node' = create_workflow.edges[n]
            /\ state' = Merge(state, result.update)
            /\ session' = [session EXCEPT !.appended =
                              @ + Len(Get(state', "conversation_history", <<>>))
                                - Len(Get(state, "conversation_history", <<>>))]
    /\ UNCHANGED <<user_input, mainVars>>

RunAnalyze == RunNode("analyze_query", analyze_user_query(state), FALSE)

RunExecute == RunNode("execute_tool", execute_tool_call(state), FALSE)

RunGenerate ==
    \E llm \in LLMOutcomes :
        RunNode("generate_response", generate_final_response(state, llm), llm.raised)

\* PrintAnswer, mutated: the loop goes on before the graph has reached END (ainvoke
\* not awaited).
PrintAnswer_early ==
    /\ pc = "workflow"
    /\ node # "analyze_query"
    /\ ToPrompt

\* ainvoke has returned: the answer is printed and the loop continues.
PrintAnswer ==
    /\ pc = "workflow"
    /\ node = "END"
    /\ ToPrompt

ReadExit == ReadExitFrom(Lines)

ReadEmpty == ReadEmptyFrom(Lines)

ReadQuestion == ReadQuestionFrom(Lines)

Next ==
    \/ ReadExit
    \/ ReadEmpty
    \/ ReadQuestion
    \/ ReadEOF
    \/ ReadInterrupt
    \/ HandleException
    \/ RunAnalyze
    \/ RunExecute
    \/ RunGenerate
    \/ PrintAnswer

Spec == Init /\ [][Next]_vars

\* A turn in flight is not abandoned: the event loop runs the nodes of an invoked
\* workflow one after the other and chat_with_agent then prints the answer.
\* The steps the program takes by itself, once input() has returned.
TurnStep == RunAnalyze \/ RunExecute \/ RunGenerate \/ PrintAnswer \/ HandleException

CoreNext ==
    \/ ReadExitFrom(CoreLines)
    \/ ReadEmptyFrom(CoreLines)
    \/ ReadQuestionFrom(CoreLines)
    \/ ReadEOF
    \/ ReadInterrupt
    \/ TurnStep

\* The loop over the lines of the core vocabulary, under the scheduling of the code:
\* a turn in flight is not abandoned, since ainvoke runs the nodes one after the other
\* and chat_with_agent then prints the answer, while input() may block for ever.
FairSpec == Init /\ [][CoreNext]_vars /\ WF_vars(TurnStep)

----------------------------------------------------------------------------
(* The node methods called directly, on any dictionary *)

\* A key that may be missing: the dictionaries with at most this key.
Optional(key, values) == {<<>>} \cup {[k \in {key} |-> v] : v \in values}

\* A payload as a tool returns it, and the payload of an unknown tool.
SomePayload == Dict(<< <<"ts_code", Str(Code600036SH)>>, <<"open", Num("1650.0")>> >>)
ErrorPayload == Dict(<< <<"error", Str(UnknownToolText)>> >>)

\* The dictionaries the node methods are called on: every field present or missing,
\* tool names inside and outside self.tools, tool_args with and without stock_code.
DirectStates ==
    {Merge(Merge(Merge(Merge(Merge(q, n), a), r), s),
           [answer |-> <<>>, conversation_history |-> <<>>]) :
        q \in Optional("question", {<<"u8305", "u53F0">>, <<"k", "u7EBF">>}),
        n \in Optional("tool_name", ToolNames \cup {"", "get_dividend"}),
        a \in Optional("tool_args",
                 {<<>>, [period |-> Str(<<"20231231">>)], [stock_code |-> None]}
                 \cup {[stock_code |-> Str(c)] : c \in {Code600519SH, Code000002SZ}}),
        r \in Optional("tool_result",
                 {None, Str(ToolFailedText \o KeyErrorText("stock_code")),
                  SomePayload, ErrorPayload}),
        s \in Optional("success", BOOLEAN)}

DirectInit ==
    /\ pc = "direct"
    /\ node = "idle"
    /\ state \in DirectStates
    /\ visits = NoVisits
    /\ effects = NoEffects
    /\ user_input = <<>>
    /\ session = NoSession
    /\ MainIdle

\* One node method is called on the dictionary and its update merged, as the graph
\* would do; node names the method called last.
Call(n, result, llm_raised) ==
    /\ pc = "direct"
    /\ visits[n] < MaxDirectCalls
    /\ visits' = [visits EXCEPT ![n] = @ + 1]
    /\ node' = n
    /\ effects' = [raised |-> result.raised, lookups |-> result.lookups,
                   llm_calls |-> result.llm_calls,
                   llm_raised |-> llm_raised /\ result.llm_calls > 0]
    /\ state' = IF result.raised THEN state ELSE Merge(state, result.update)
    /\ pc' = pc
    /\ UNCHANGED <<user_input, session, mainVars>>

CallAnalyze == Call("analyze_query", analyze_user_query(state), FALSE)

CallExecute == Call("execute_tool", execute_tool_call(state), FALSE)

CallGenerate ==
    \E llm \in LLMOutcomes :
        Call("generate_response", generate_final_response(state, llm), llm.raised)

DirectNext == CallAnalyze \/ CallExecute \/ CallGenerate

SpecStages == DirectInit /\ [][DirectNext]_vars

----------------------------------------------------------------------------
(* main.py: chat_with_glm and the loop of main *)

\* "error: please check the ZHIPU_API_KEY setting in the .env file"
MissingKeyText ==
    <<"u9519", "u8BEF", "uFF1A", "u8BF7", "u68C0", "u67E5", " ", ".", "e", "n", "v", " ",
      "u6587", "u4EF6", "u4E2D", "u7684", " ", "Z", "H", "I", "P", "U", "_", "A", "P",
      "I", "_", "K", "E", "Y", " ", "u914D", "u7F6E">>

\* "API call error: "
ApiErrorText == <<"A", "P", "I", "u8C03", "u7528", "u9519", "u8BEF", ":", " ">>

\* "You are a helpful AI assistant."
SystemContent ==
    <<"u4F60", "u662F", "u4E00", "u4E2A", "u4E50", "u4E8E", "u52A9", "u4EBA", "u7684",
      "A", "I", "u52A9", "u624B", "u3002">>

\* A message of the history: {"role": ..., "content": ...}
Message(role, content) == [role |-> role, content |-> content]

\* os.getenv('ZHIPU_API_KEY'): unset, set to the empty string, or set to a key.
ApiKeys == {None, Str(<<>>), Str(<<"k", "e", "y">>)}

\* not api_key
Falsy(value) == value = None \/ (value.kind = "str" /\ value.text = <<>>)

\* What the request of chat_with_glm may do (post, raise_for_status, json and the
\* lookup of the content): raise, or yield the content of the reply.
RequestOutcomes ==
    {Raise(<<"t", "i", "m", "e", "o", "u", "t">>), Return(<<"u4F60", "u597D", "!">>)}

\* chat_with_glm: the text it returns; it never raises.
chat_with_glm(key, request) ==
    IF Falsy(key) THEN MissingKeyText
    ELSE IF request.raised THEN ApiErrorText \o request.message
    ELSE request.value

\* The lines typed to main: blank ones, the exit tokens in several spellings and
\* paddings (blank, tab), and questions, two of which hold an exit token inside.
MainLines ==
    {<<>>, <<" ">>, <<"\t", " ">>,
     <<"q", "u", "i", "t">>, <<"Q", "U", "I", "T">>, <<"e", "x", "i", "t">>,
     <<" ", "E", "x", "i", "t", "\t">>, <<"u9000", "u51FA">>, <<"\t", "u9000", "u51FA", " ">>,
     <<"u4F60", "u597D">>, <<" ", "u4F60", "u597D", "\t">>,
     <<"u4F60", "u597D", " ", "u4F60", "u597D">>,
     <<"e", "x", "i", "t", "s">>,
     <<"u9000", "u51FA", " ", "q", "u", "i", "t">>}

MainInit ==
    /\ pc = "main_prompt"
    /\ messages = <<Message("system", SystemContent)>>
    /\ api_key \in ApiKeys
    /\ user_input = <<>>
    /\ session = NoSession
    /\ WorkflowIdle

\* input() returns an exit token: the loop ends.
MainReadExitFrom(lines) ==
    /\ pc = "main_prompt"
    /\ \E line \in lines :
          /\ Lower(Strip(line)) \in ExitTokens
          /\ user_input' = Strip(line)
    /\ pc' = "main_exited"
    /\ UNCHANGED <<workflowVars, session, mainVars>>

\* MainReadEmptyFrom, mutated: no check for an empty line, which starts a turn.
MainReadEmptyFrom_starts_turn(lines) ==
    /\ pc = "main_prompt"
    /\ session.turns < MaxTurns
    /\ \E line \in lines :
          /\ Lower(Strip(line)) \notin ExitTokens
          /\ Strip(line) = <<>>
          /\ user_input' = Strip(line)
    /\ messages' = Append(messages, Message("user", user_input'))
    /\ pc' = "main_chat"
    /\ session' = [session EXCEPT !.turns = @ + 1]
    /\ UNCHANGED <<workflowVars, api_key>>

\* input() returns a line of whitespace: the loop prompts again.
MainReadEmptyFrom(lines) ==
    /\ pc = "main_prompt"
    /\ \E line \in lines :
          /\ Lower(Strip(line)) \notin ExitTokens
          /\ Strip(line) = <<>>
          /\ user_input' = Strip(line)
    /\ UNCHANGED <<pc, workflowVars, session, mainVars>>

\* input() returns a question: it is appended to the history as a user message.
MainReadQuestionFrom(lines) ==
    /\ pc = "main_prompt"
    /\ session.turns < MaxTurns
    /\ \E line \in lines :
          /\ Lower(Strip(line)) \notin ExitTokens
          /\ Strip(line) # <<>>
          /\ user_input' = Strip(line)
    /\ messages' = Append(messages, Message("user", user_input'))
    /\ pc' = "main_chat"
    /\ session' = [session EXCEPT !.turns = @ + 1]
    /\ UNCHANGED <<workflowVars, api_key>>

\* input() raises (KeyboardInterrupt, EOFError): main has no handler, the program ends.
MainReadRaises ==
    /\ pc = "main_prompt"
    /\ pc' = "main_exited"
    /\ UNCHANGED <<workflowVars, user_input, session, mainVars>>

\* MainChat, mutated: an error text of chat_with_glm is printed, not appended.
MainChat_drops_error ==
    /\ pc = "main_chat"
    /\ \E request \in RequestOutcomes :
          LET ai_response == chat_with_glm(api_key, request) IN
          messages' = IF Falsy(api_key) \/ request.raised
                      THEN messages
                      ELSE Append(messages, Message("assistant", ai_response))
    /\ pc' = "main_prompt"
    /\ user_input' = <<>>
    /\ UNCHANGED <<workflowVars, session, api_key>>

\* chat_with_glm is called on the history, its text appended as an assistant message
\* and printed; the loop prompts again.
MainChat ==
    /\ pc = "main_chat"
    /\ \E request \in RequestOutcomes :
          LET ai_response == chat_with_glm(api_key, request) IN
          messages' = Append(messages, Message("assistant", ai_response))
    /\ pc' = "main_prompt"
    /\ user_input' = <<>>
    /\ UNCHANGED <<workflowVars, session, api_key>>

MainReadExit == MainReadExitFrom(MainLines)

MainReadEmpty == MainReadEmptyFrom(MainLines)

MainReadQuestion == MainReadQuestionFrom(MainLines)

MainNext ==
    \/ MainReadExit
    \/ MainReadEmpty
    \/ MainReadQuestion
    \/ MainReadRaises
    \/ MainChat

\* main alone.
SpecMain == MainInit /\ [][MainNext]_vars

\* The two programs of the repository: a run is a run of chat_with_agent or of main.
SpecPrograms == (Init \/ MainInit) /\ [][Next \/ MainNext]_vars

----------------------------------------------------------------------------
(* Properties of the workflow *)

StartsWith(text, prefix) ==
    Len(text) >= Len(prefix) /\ SubSeq(text, 1, Len(prefix)) = prefix

\* ainvoke has run the graph to END and is about to return.
TurnDone == pc = "workflow" /\ node = "END"

\* C1: in a turn the nodes run in the order analyze_query, execute_tool,
\* generate_response, END, each exactly once: the node about to run determines how
\* often every node has run, and no node has run twice.
C1_LinearOrder ==
    pc = "workflow" =>
        /\ node \in Nodes \cup {"END"}
        /\ visits["analyze_query"] = (IF node = "analyze_query" THEN 0 ELSE 1)
        /\ visits["execute_tool"] =
               (IF node \in {"analyze_query", "execute_tool"} THEN 0 ELSE 1)
        /\ visits["generate_response"] = (IF node = "END" THEN 1 ELSE 0)

\* A turn at END with its three nodes run once each.
C1_Witness ==
    /\ TurnDone
    /\ \A n \in Nodes : visits[n] = 1

\* The answer of a finished turn: written by generate_response; the failure format
\* when the tool failed; the non-empty fallback when the model call failed.  (On a
\* call that parse_tool_call has produced get_mock_stock_data never fails, so within
\* a turn the failure arm is not entered; C4 and C7 cover it on direct calls.)
AnswerAtEnd ==
    /\ "answer" \in DOMAIN state
    /\ visits["generate_response"] = 1
    /\ ~state.success =>
           /\ state.tool_result.kind = "str"
           /\ state.answer = QueryFailedText \o state.tool_result.text
    /\ effects.llm_raised => Len(state.answer) > Len(QueryResultText)

\* C2: every turn reaches END with the answer written, and no exception leaves a
\* node of the workflow: not from the tool execution, not from the model call.
C2_TurnEndsWithAnswer ==
    /\ (pc = "workflow") ~> TurnDone
    /\ [](TurnDone => AnswerAtEnd)
    /\ [](~effects.raised)

\* A turn at END whose model call raised.
C2_Witness ==
    /\ TurnDone
    /\ effects.llm_raised
    /\ state.answer # <<>>

\* Whether a dict value has the key.
HasKey(v, key) == v.kind = "dict" /\ \E i \in 1..Len(v.items) : v.items[i][1] = key

\* C3: after execute_tool_call on a state whose tool_name is outside the closed set,
\* the result is a failure and get_mock_stock_data was not called.
C3_UnknownToolFails ==
    (/\ node = "execute_tool"
     /\ "tool_name" \in DOMAIN state
     /\ state.tool_name \notin ToolNames)
    => (state.success = FALSE /\ effects.lookups = 0)

\* C4: after execute_tool_call on a state whose tool_args has no stock_code, the
\* result is a failure whose tool_result is a failure message, no exception has left
\* the method and get_mock_stock_data was called zero times.
C4_MissingStockCodeFails ==
    (/\ node = "execute_tool"
     /\ "tool_args" \in DOMAIN state
     /\ "stock_code" \notin DOMAIN state.tool_args)
    => /\ ~effects.raised
       /\ state.success = FALSE
       /\ state.tool_result.kind = "str"
       /\ StartsWith(state.tool_result.text, ToolFailedText)
       /\ "tool_name" \in DOMAIN state =>
              state.tool_result.text = ToolFailedText \o <<"'", "stock_code", "'">>
       /\ effects.lookups = 0

\* execute_tool_call has run on the empty tool_args and failed.
C4_Witness ==
    /\ node = "execute_tool"
    /\ "tool_name" \in DOMAIN state
    /\ state.tool_name \in ToolNames
    /\ "tool_args" \in DOMAIN state
    /\ state.tool_args = <<>>
    /\ state.success = FALSE
    /\ effects.lookups = 0

\* C5: after execute_tool_call the result is one of two arms: a success with a data
\* payload that carries no error, or a failure with an error message.
C5_ExactlyOneArm ==
    node = "execute_tool" =>
        \/ /\ state.success = TRUE
           /\ state.tool_result.kind = "dict"
           /\ ~HasKey(state.tool_result, "error")
        \/ /\ state.success = FALSE
           /\ state.tool_result.kind = "str"

\* The fallback answer as the claim has it: the serialized payload and nothing else.
\* C6 (as stated): when the tool result is a success and the model call raised, the
\* answer is exactly json.dumps(tool_result).
C6_FallbackIsExactPayload ==
    (TurnDone /\ state.success /\ effects.llm_raised)
    => state.answer = json_dumps(state.tool_result)

\* C6 (amended): when the tool result is a success and the model call raised, no
\* exception has left generate_final_response and the answer is the prefix "query
\* result:" and a newline, followed by json.dumps(tool_result) up to its last
\* character.
C6_FallbackIsPrefixedPayload ==
    (TurnDone /\ state.success /\ effects.llm_raised)
    => /\ ~effects.raised
       /\ effects.llm_calls = 1
       /\ StartsWith(state.answer, QueryResultText \o <<"\n", "{", "\n", "  ", "\"">>)
       /\ SubSeq(state.answer, Len(QueryResultText) + 2, Len(state.answer))
              = json_dumps(state.tool_result)

\* A turn at END whose model call raised on the payload of get_financial_indicator.
C6_Witness ==
    /\ TurnDone
    /\ state.success
    /\ effects.llm_raised
    /\ state.tool_name = "get_financial_indicator"
    /\ Len(state.answer) > Len(QueryResultText) + 1

\* C7: after generate_final_response on a state whose success flag is False or
\* missing, the model was not called, and when tool_result holds a failure message
\* the answer is "query failed:" followed by that message.
C7_FailureAnswer ==
    (node = "generate_response" /\ ~Get(state, "success", FALSE))
    => /\ effects.llm_calls = 0
       /\ ("tool_result" \in DOMAIN state /\ state.tool_result.kind = "str") =>
              /\ ~effects.raised
              /\ state.answer = QueryFailedText \o state.tool_result.text

\* generate_final_response has answered a state with no success flag whose
\* tool_result is a failure message.
C7_Witness ==
    /\ node = "generate_response"
    /\ "success" \notin DOMAIN state
    /\ "tool_result" \in DOMAIN state
    /\ state.tool_result.kind = "str"
    /\ StartsWith(state.answer, QueryFailedText \o ToolFailedText)

\* analyze_query has run in the turn in flight: the state holds the parsed tool call.
Analyzed == pc = "workflow" /\ node # "analyze_query"

\* C8: the tool is the one of the first keyword group, in the order realtime, price,
\* financial, basic, that has a keyword in the question; get_stock_basic if none has.
C8_ToolPriority ==
    Analyzed =>
        LET q == state.question
            realtime == AnyKeywordIn(q, RealtimeKeywords)
            price == AnyKeywordIn(q, PriceKeywords)
            financial == AnyKeywordIn(q, FinancialKeywords)
        IN /\ realtime => state.tool_name = "get_realtime_price"
           /\ (~realtime /\ price) => state.tool_name = "get_stock_price"
           /\ (~realtime /\ ~price /\ financial) =>
                  state.tool_name = "get_financial_indicator"
           /\ (~realtime /\ ~price /\ ~financial) => state.tool_name = "get_stock_basic"

\* A question made of a price keyword followed by a realtime keyword has resolved to
\* get_realtime_price.
C8_Witness ==
    /\ Analyzed
    /\ \E p \in PriceKeywords, r \in RealtimeKeywords : state.question = p \o r
    /\ state.tool_name = "get_realtime_price"

IdentifierKeywords ==
    MaotaiKeywords \cup PinganKeywords \cup ZhaoshangKeywords \cup WankeKeywords

\* C9: a question with "Maotai" or "600519" in it resolves to 600519.SH whatever else
\* it holds, and a question with no identifier keyword resolves to 000001.SZ.
C9_MaotaiAndDefault ==
    Analyzed =>
        LET q == state.question IN
        /\ AnyKeywordIn(q, MaotaiKeywords) =>
               state.tool_args.stock_code = Str(Code600519SH)
        /\ ~AnyKeywordIn(q, IdentifierKeywords) =>
               state.tool_args.stock_code = Str(Code000001SZ)

\* A question that names another company before "600519" has resolved to 600519.SH.
C9_Witness ==
    /\ Analyzed
    /\ \E k \in ZhaoshangKeywords \cup WankeKeywords :
          state.question = k \o <<"6", "0", "0", "5", "1", "9">>
    /\ state.tool_args.stock_code = Str(Code600519SH)

\* The securities parse_tool_call knows, in the order of its if/elif chain.
Securities ==
    << [name |-> <<"u8305", "u53F0">>, number |-> <<"6", "0", "0", "5", "1", "9">>,
        code |-> Code600519SH],
       [name |-> <<"u5E73", "u5B89">>, number |-> <<"0", "0", "0", "0", "0", "1">>,
        code |-> Code000001SZ],
       [name |-> <<"u62DB", "u5546">>, number |-> <<"6", "0", "0", "0", "3", "6">>,
        code |-> Code600036SH],
       [name |-> <<"u4E07", "u79D1">>, number |-> <<"0", "0", "0", "0", "0", "2">>,
        code |-> Code000002SZ] >>

\* The question holds the company name of security x, the numeric code of security y
\* and no other identifier keyword.
NameAndNumber(q, x, y) ==
    /\ x # y
    /\ Contains(q, Securities[x].name)
    /\ Contains(q, Securities[y].number)
    /\ \A z \in 1..Len(Securities) :
          /\ z # x => ~Contains(q, Securities[z].name)
          /\ z # y => ~Contains(q, Securities[z].number)

\* C10 (as stated): a question holding the company name of one security and the
\* numeric code of another resolves to the security of the company name.
C10_NameBeforeNumber ==
    Analyzed =>
        \A x, y \in 1..Len(Securities) :
            NameAndNumber(state.question, x, y) =>
                state.tool_args.stock_code = Str(Securities[x].code)

\* C10 (amended): a question holding the company name of one security and the
\* numeric code of another resolves to whichever of the two securities comes first in
\* the order Maotai, Ping'an, Zhaoshang, Wanke, be it named or numbered.
C10_FirstSecurityWins ==
    Analyzed =>
        \A x, y \in 1..Len(Securities) :
            NameAndNumber(state.question, x, y) =>
                state.tool_args.stock_code =
                    Str(Securities[IF x < y THEN x ELSE y].code)

\* The question "Ping'an" followed by "600519" has resolved to 600519.SH, the
\* security of the numeric code.
C10_Witness ==
    /\ Analyzed
    /\ state.question = Securities[2].name \o Securities[1].number
    /\ state.tool_args.stock_code = Str(Securities[1].code)

\* The stock codes parse_tool_call resolves to.
StockCodes == {Code600519SH, Code000001SZ, Code600036SH, Code000002SZ}

\* C11 (as stated): the tool call written to the state is complete: the tool is one
\* of the four, and tool_args holds every parameter of its schema, the defaulted ones
\* included.
C11_CompleteCall ==
    Analyzed =>
        /\ state.tool_name \in ToolNames
        /\ DOMAIN state.tool_args =
               ToolSchema[state.tool_name].required
               \cup ToolSchema[state.tool_name].defaulted

\* C11 (amended): the tool is one of the four, and tool_args holds exactly the
\* required parameter stock_code, with one of the four known codes as a str; a
\* defaulted parameter (period) is never written.
C11_RequiredArgumentsOnly ==
    Analyzed =>
        /\ state.tool_name \in ToolNames
        /\ DOMAIN state.tool_args = ToolSchema[state.tool_name].required
        /\ state.tool_args.stock_code.kind = "str"
        /\ state.tool_args.stock_code.text \in StockCodes

\* A call of get_financial_indicator has been written without its period.
C11_Witness ==
    /\ Analyzed
    /\ state.tool_name = "get_financial_indicator"
    /\ "stock_code" \in DOMAIN state.tool_args
    /\ "period" \notin DOMAIN state.tool_args

\* C12 (as stated): the conversation history accumulates over the turns of one run of
\* chat_with_agent: when a turn ends, the history holds the records appended by every
\* turn of the run so far, so that after two turns it holds the records of both.
C12_HistoryAccumulates ==
    TurnDone => Len(state.conversation_history) = session.appended

\* C15: in chat_with_agent a failure raised in a turn reaches the per-turn guard, and
\* from the guard the loop always goes back to the prompt; the loop ends only from the
\* prompt, on an exit token or on an interrupt of input(), never from a turn in flight
\* nor from the guard.
C15_GuardContinues ==
    [][/\ (pc = "workflow" /\ effects'.raised) => pc' = "except"
       /\ pc = "except" => pc' = "prompt"
       /\ (pc' = "exited" /\ pc # "exited") =>
              /\ pc = "prompt"
              /\ \/ Lower(user_input') \in ExitTokens
                 \/ user_input' = user_input]_vars

\* The guard has caught a failure after a turn of the run was completed.
C15_Witness ==
    /\ pc = "except"
    /\ session.turns > 0

\* The fields each node of the graph returns.
Writes ==
    [analyze_query |-> {"tool_name", "tool_args", "conversation_history"},
     execute_tool |-> {"tool_result", "success"},
     generate_response |-> {"answer"}]

\* C17: a node of the workflow changes only its own fields of the state:
\* analyze_query only tool_name, tool_args and conversation_history, execute_tool only
\* tool_result and success, generate_response only answer; no field is added or
\* removed, and the question is never changed.
C17_StagesWriteOwnFields ==
    [][(pc = "workflow" /\ node \in Nodes) =>
           /\ DOMAIN state' = DOMAIN state
           /\ \A k \in DOMAIN state \ Writes[node] : state'[k] = state[k]
           /\ state'.question = state.question]_vars

\* The three nodes have run and written their fields, and the question is still the
\* line that was read.
C17_Witness ==
    /\ TurnDone
    /\ state.question = user_input
    /\ state.tool_name # ""
    /\ state.success
    /\ state.answer # <<>>
    /\ Len(state.conversation_history) = 1

----------------------------------------------------------------------------
(* Properties of the interactive loops *)

\* The loop is at input().
AtPrompt == pc \in {"prompt", "main_prompt"}

\* A turn is in flight: the workflow runs, or main waits for chat_with_glm.
InFlight == pc \in {"workflow", "except", "main_chat"}

\* The step starts a turn.
TurnStarts == session'.turns # session.turns

\* C14: in both loops, for a step taken at input(): the line held is stripped; a line
\* that is empty after stripping changes nothing (no message appended, no workflow
\* run, no turn started); a line that is an exit token in any letter case ends the
\* loop without starting a turn; every other line starts exactly one turn on that
\* line: the workflow is invoked on it, or main appends it as one user message.
C14_EmptyExitOrOneTurn ==
    [][AtPrompt =>
         /\ user_input' = Strip(user_input')
         /\ user_input' = <<>> =>
                /\ UNCHANGED <<workflowVars, session, mainVars>>
                /\ ~InFlight' \/ pc' = "except"
         /\ Lower(user_input') \in ExitTokens =>
                /\ pc' \in {"exited", "main_exited"}
                /\ UNCHANGED <<workflowVars, session, mainVars>>
         /\ (user_input' # <<>> /\ Lower(user_input') \notin ExitTokens) =>
                /\ session'.turns = session.turns + 1
                /\ pc = "prompt" =>
                       /\ pc' = "workflow"
                       /\ node' = create_workflow.entry_point
                       /\ state' = InitialState(user_input')
                       /\ UNCHANGED mainVars
                /\ pc = "main_prompt" =>
                       /\ pc' = "main_chat"
                       /\ messages' = Append(messages, Message("user", user_input'))
                       /\ UNCHANGED <<workflowVars, api_key>>]_vars

\* main has ended on an exit token spelled with an upper-case letter, after a turn.
C14_Witness ==
    /\ pc = "main_exited"
    /\ user_input \notin ExitTokens
    /\ Lower(user_input) \in ExitTokens
    /\ session.turns = 1
    /\ Len(messages) = 3

IsPrefix(s, t) == Len(s) <= Len(t) /\ SubSeq(t, 1, Len(s)) = s

\* The turns of main that are complete.
CompletedTurns == session.turns - (IF pc = "main_chat" THEN 1 ELSE 0)

\* C18: the history of main starts with the system message, followed by user and
\* assistant messages in strict alternation; its length is 1 + 2 * (completed turns),
\* plus the user message of a turn in flight; a step never removes or rewrites an
\* entry, a question appends exactly its user message and chat_with_glm's text,
\* whatever it is (the missing-key text and the API error text included), exactly one
\* assistant message.
C18_HistoryAppendOnly ==
    /\ [](/\ Len(messages) = 1 + 2 * CompletedTurns + (IF pc = "main_chat" THEN 1 ELSE 0)
          /\ messages[1] = Message("system", SystemContent)
          /\ \A i \in 2..Len(messages) :
                 messages[i].role = (IF i % 2 = 0 THEN "user" ELSE "assistant")
          /\ \A i \in 2..Len(messages) :
                 (i % 2 = 1 /\ Falsy(api_key)) => messages[i].content = MissingKeyText)
    /\ [][/\ IsPrefix(messages, messages')
          /\ TurnStarts => messages' = Append(messages, Message("user", user_input'))
          /\ pc = "main_chat" =>
                 /\ Len(messages') = Len(messages) + 1
                 /\ messages'[Len(messages')].role = "assistant"
          /\ (~TurnStarts /\ pc # "main_chat") => messages' = messages]_vars

\* Two turns are complete, the first answered with the API error text, the second
\* with a reply.
C18_Witness ==
    /\ pc = "main_prompt"
    /\ Len(messages) = 5
    /\ StartsWith(messages[3].content, ApiErrorText)
    /\ ~StartsWith(messages[5].content, ApiErrorText)

====
